---- MODULE Spec2Model ----
(***************************************************************************)
(* A model of the RRI query codec of go-rriclient (package rri): the       *)
(* ordered field container, the DENIC handle, the contact and domain       *)
(* records, the query constructors, EncodeKV and ParseQueryKV.             *)
(*                                                                         *)
(* A Go string is a sequence of one-character strings; the functions of    *)
(* package strings, strconv and fmt the code calls are operators computed  *)
(* as the library computes them, over the ASCII characters of the model.   *)
(***************************************************************************)
EXTENDS Integers, Sequences, FiniteSets, TLC

VARIABLES
    pc,      \* the operation that acted last
    arg,     \* the arguments of that operation
    str,     \* the text on the wire: the input of a parse, the output of an encoding
    fields,  \* the caller's QueryFieldList
    query,   \* the caller's Query
    handle,  \* the caller's DenicHandle
    res      \* what the last fallible call returned: [val, err]

vars == <<pc, arg, str, fields, query, handle, res>>

(***************************************************************************)
(* Bounds of the model.                                                    *)
(***************************************************************************)
\* the number of lines of a wire text handed to ParseQueryKV
MaxLines == 3

\* the largest registrar account id of a constructed handle, besides the long ones
MaxRegAccID == 2

\* the number of '-'-separated segments of a text handed to ParseDenicHandle
MaxSegments == 3

\* the number of holder handles of a domain record
MaxHandles == 2

\* the number of verification-information sub-records of a contact record
MaxVerifications == 2

(***************************************************************************)
(* package strings                                                         *)
(***************************************************************************)
LowerChars == <<"a", "b", "c", "d", "e", "f", "g", "h", "i", "j", "k", "l", "m", "n", "o", "p", "q", "r", "s", "t", "u", "v", "w", "x", "y", "z">>

UpperChars == <<"A", "B", "C", "D", "E", "F", "G", "H", "I", "J", "K", "L", "M", "N", "O", "P", "Q", "R", "S", "T", "U", "V", "W", "X", "Y", "Z">>

\* unicode.IsSpace over the characters of the model
IsSpace(c) == c \in {" ", "\t", "\n", "\r"}

ToUpperChar(c) ==
    IF \E i \in 1..Len(LowerChars) : LowerChars[i] = c
    THEN UpperChars[CHOOSE i \in 1..Len(LowerChars) : LowerChars[i] = c]
    ELSE c

ToLowerChar(c) ==
    IF \E i \in 1..Len(UpperChars) : UpperChars[i] = c
    THEN LowerChars[CHOOSE i \in 1..Len(UpperChars) : UpperChars[i] = c]
    ELSE c

ToUpper(s) == [i \in 1..Len(s) |-> ToUpperChar(s[i])]

ToLower(s) == [i \in 1..Len(s) |-> ToLowerChar(s[i])]

RECURSIVE ConcatRange(_, _, _)
ConcatRange(parts, lo, hi) ==
    IF lo > hi THEN <<>>
    ELSE IF lo = hi THEN parts[lo]
    ELSE ConcatRange(parts, lo, (lo + hi) \div 2)
         \o ConcatRange(parts, ((lo + hi) \div 2) + 1, hi)

\* the parts of a sequence of texts written one after the other
Concat(parts) == ConcatRange(parts, 1, Len(parts))

\* the places of s that satisfy Test, in increasing order
Places(s, Test(_)) == SelectSeq([i \in 1..Len(s) |-> i], Test)

TrimSpace(s) ==
    LET kept == Places(s, LAMBDA i : ~IsSpace(s[i]))
    IN  IF kept = <<>> THEN <<>> ELSE SubSeq(s, kept[1], kept[Len(kept)])

HasPrefix(s, prefix) ==
    Len(s) >= Len(prefix) /\ SubSeq(s, 1, Len(prefix)) = prefix

\* The places where sep starts in s, in increasing order.  The separators of
\* the package ("\n", ":", "-", "\r\n", "\r") cannot overlap themselves, so
\* these are the occurrences the library finds from left to right.
Occurrences(s, sep) ==
    Places(s, LAMBDA i : i + Len(sep) - 1 <= Len(s) /\ SubSeq(s, i, i + Len(sep) - 1) = sep)

\* strings.SplitN for a non-empty sep and n # 0 (n < 0: no limit): s is cut at
\* the first n - 1 occurrences of sep
SplitN(s, sep, n) ==
    LET found == Occurrences(s, sep)
        cuts == IF n < 0 \/ Len(found) < n THEN Len(found) ELSE n - 1
    IN  [k \in 1..(cuts + 1) |->
            SubSeq(s, IF k = 1 THEN 1 ELSE found[k - 1] + Len(sep),
                      IF k = cuts + 1 THEN Len(s) ELSE found[k] - 1)]

Split(s, sep) == SplitN(s, sep, -1)

\* strings.Join
Join(parts, sep) ==
    Concat([i \in 1..Len(parts) |-> IF i = 1 THEN parts[i] ELSE sep \o parts[i]])

\* strings.ReplaceAll for a non-empty old: the texts between the occurrences
\* of old, with new in the place of each occurrence
ReplaceAll(s, old, new) == Join(Split(s, old), new)

(***************************************************************************)
(* package strconv and the %d verb of package fmt                          *)
(***************************************************************************)
DigitChars == <<"0", "1", "2", "3", "4", "5", "6", "7", "8", "9">>

IsDigit(c) == \E i \in 1..Len(DigitChars) : DigitChars[i] = c

DigitValue(c) == (CHOOSE i \in 1..Len(DigitChars) : DigitChars[i] = c) - 1

\* the decimal text of an integer
RECURSIVE Itoa(_)
Itoa(n) ==
    IF n < 0 THEN <<"-">> \o Itoa(-n)
    ELSE IF n < 10 THEN <<DigitChars[n + 1]>>
    ELSE Itoa(n \div 10) \o <<DigitChars[(n % 10) + 1]>>

\* the value of a run of digits read after the value acc
RECURSIVE AtoiDigits(_, _)
AtoiDigits(s, acc) ==
    IF s = <<>> THEN acc ELSE AtoiDigits(Tail(s), acc * 10 + DigitValue(Head(s)))

\* strconv.Atoi: an optional sign and at least one digit, nothing else.  The
\* texts of the model stay far below the range of int, so the range error of
\* Atoi does not arise.
Atoi(s) ==
    LET signed == s # <<>> /\ Head(s) \in {"+", "-"}
        digits == IF signed THEN Tail(s) ELSE s
    IN  IF digits = <<>> \/ \E i \in 1..Len(digits) : ~IsDigit(digits[i])
        THEN [val |-> 0, ok |-> FALSE]
        ELSE [val |-> IF signed /\ Head(s) = "-"
                      THEN -AtoiDigits(digits, 0) ELSE AtoiDigits(digits, 0),
              ok |-> TRUE]

(***************************************************************************)
(* The collaborators of NewCreateAuthInfo1Query: the digest, its           *)
(* hexadecimal text, and the layout 20060102 of time.Format.               *)
(***************************************************************************)
HexChars == <<"0", "1", "2", "3", "4", "5", "6", "7", "8", "9", "a", "b", "c", "d", "e", "f">>

\* hex.EncodeToString
RECURSIVE HexEncodeToString(_)
HexEncodeToString(bytes) ==
    IF bytes = <<>> THEN <<>>
    ELSE <<HexChars[(Head(bytes) \div 16) + 1], HexChars[(Head(bytes) % 16) + 1]>>
         \o HexEncodeToString(Tail(bytes))

CodedChars == LowerChars \o UpperChars \o DigitChars

CharCode(c) ==
    IF \E i \in 1..Len(CodedChars) : CodedChars[i] = c
    THEN CHOOSE i \in 1..Len(CodedChars) : CodedChars[i] = c
    ELSE 0

RECURSIVE CharSum(_)
CharSum(s) == IF s = <<>> THEN 0 ELSE CharCode(Head(s)) + CharSum(Tail(s))

\* The digest of a text.  SHA-256 itself is not computed: the digest stands
\* for it as a fixed function from texts to bytes.
Sha256Sum(s) == <<Len(s) % 256, CharSum(s) % 256, (7 * CharSum(s) + Len(s)) % 256>>

\* a number in decimal, padded with zeros to at least width digits
RECURSIVE ZeroPad(_, _)
ZeroPad(n, width) ==
    IF Len(Itoa(n)) >= width THEN Itoa(n) ELSE <<"0">> \o ZeroPad(n, width - 1)

\* t.Format("20060102") for a date of the years 0 to 9999
TimeFormat20060102(t) == ZeroPad(t.Year, 4) \o ZeroPad(t.Month, 2) \o ZeroPad(t.Day, 2)

(***************************************************************************)
(* Enumeration types, query.go                                             *)
(***************************************************************************)
LatestVersion == <<"5", ".", "0">>

QueryEntityVerificationInformation == <<"V", "e", "r", "i", "f", "i", "c", "a", "t", "i", "o", "n", "I", "n", "f", "o", "r", "m", "a", "t", "i", "o", "n">>

QueryFieldNameEntity == <<"e", "n", "t", "i", "t", "y">>

QueryFieldNameVersion == <<"v", "e", "r", "s", "i", "o", "n">>

QueryFieldNameAction == <<"a", "c", "t", "i", "o", "n">>

QueryFieldNameUser == <<"u", "s", "e", "r">>

QueryFieldNamePassword == <<"p", "a", "s", "s", "w", "o", "r", "d">>

QueryFieldNameDomainIDN == <<"d", "o", "m", "a", "i", "n">>

QueryFieldNameDomainACE == <<"d", "o", "m", "a", "i", "n", "-", "a", "c", "e">>

QueryFieldNameHolder == <<"h", "o", "l", "d", "e", "r">>

QueryFieldNameGeneralRequest == <<"g", "e", "n", "e", "r", "a", "l", "r", "e", "q", "u", "e", "s", "t">>

QueryFieldNameAbuseContact == <<"a", "b", "u", "s", "e", "c", "o", "n", "t", "a", "c", "t">>

QueryFieldNameNameServer == <<"n", "s", "e", "r", "v", "e", "r">>

QueryFieldNameHandle == <<"h", "a", "n", "d", "l", "e">>

QueryFieldNameDisconnect == <<"d", "i", "s", "c", "o", "n", "n", "e", "c", "t">>

QueryFieldNameAuthInfoHash == <<"a", "u", "t", "h", "i", "n", "f", "o", "h", "a", "s", "h">>

QueryFieldNameAuthInfoExpire == <<"a", "u", "t", "h", "i", "n", "f", "o", "e", "x", "p", "i", "r", "e">>

QueryFieldNameAuthInfo == <<"a", "u", "t", "h", "i", "n", "f", "o">>

QueryFieldNameType == <<"t", "y", "p", "e">>

QueryFieldNameName == <<"n", "a", "m", "e">>

QueryFieldNameOrganisation == <<"o", "r", "g", "a", "n", "i", "s", "a", "t", "i", "o", "n">>

QueryFieldNameAddress == <<"a", "d", "d", "r", "e", "s", "s">>

QueryFieldNamePostalCode == <<"p", "o", "s", "t", "a", "l", "c", "o", "d", "e">>

QueryFieldNameCity == <<"c", "i", "t", "y">>

QueryFieldNameCountryCode == <<"c", "o", "u", "n", "t", "r", "y", "c", "o", "d", "e">>

QueryFieldNameEMail == <<"e", "m", "a", "i", "l">>

QueryFieldNameMsgID == <<"m", "s", "g", "i", "d">>

QueryFieldNameMsgType == <<"m", "s", "g", "t", "y", "p", "e">>

QueryFieldNamePhone == <<"p", "h", "o", "n", "e">>

QueryFieldNameVerifiedClaim == <<"V", "e", "r", "i", "f", "i", "e", "d", "C", "l", "a", "i", "m">>

QueryFieldNameVerificationResult == <<"V", "e", "r", "i", "f", "i", "c", "a", "t", "i", "o", "n", "R", "e", "s", "u", "l", "t">>

QueryFieldNameVerificationReference == <<"V", "e", "r", "i", "f", "i", "c", "a", "t", "i", "o", "n", "R", "e", "f", "e", "r", "e", "n", "c", "e">>

QueryFieldNameVerificationTimestamp == <<"V", "e", "r", "i", "f", "i", "c", "a", "t", "i", "o", "n", "T", "i", "m", "e", "s", "t", "a", "m", "p">>

QueryFieldNameVerificationEvidence == <<"V", "e", "r", "i", "f", "i", "c", "a", "t", "i", "o", "n", "E", "v", "i", "d", "e", "n", "c", "e">>

QueryFieldNameVerificationMethod == <<"V", "e", "r", "i", "f", "i", "c", "a", "t", "i", "o", "n", "M", "e", "t", "h", "o", "d">>

QueryFieldNameTrustFramework == <<"T", "r", "u", "s", "t", "F", "r", "a", "m", "e", "w", "o", "r", "k">>

ActionLogin == <<"L", "O", "G", "I", "N">>

ActionLogout == <<"L", "O", "G", "O", "U", "T">>

ActionCheck == <<"C", "H", "E", "C", "K">>

ActionInfo == <<"I", "N", "F", "O">>

ActionCreate == <<"C", "R", "E", "A", "T", "E">>

ActionUpdate == <<"U", "P", "D", "A", "T", "E">>

ActionChangeHolder == <<"C", "H", "H", "O", "L", "D", "E", "R">>

ActionDelete == <<"D", "E", "L", "E", "T", "E">>

ActionRestore == <<"R", "E", "S", "T", "O", "R", "E">>

ActionTransit == <<"T", "R", "A", "N", "S", "I", "T">>

ActionCreateAuthInfo1 == <<"C", "R", "E", "A", "T", "E", "-", "A", "U", "T", "H", "I", "N", "F", "O", "1">>

ActionCreateAuthInfo2 == <<"C", "R", "E", "A", "T", "E", "-", "A", "U", "T", "H", "I", "N", "F", "O", "2">>

ActionChangeProvider == <<"C", "H", "P", "R", "O", "V">>

ActionQueueRead == <<"Q", "U", "E", "U", "E", "-", "R", "E", "A", "D">>

ActionQueueDelete == <<"Q", "U", "E", "U", "E", "-", "D", "E", "L", "E", "T", "E">>

ContactType_Normalize(t) == ToUpper(t)

Version_Normalize(v) == v

QueryAction_Normalize(q) == ToUpper(q)

QueryFieldName_Normalize(q) == ToLower(q)

QueryFieldEntity_String(q) == IF q = <<>> THEN <<>> ELSE <<"[">> \o q \o <<"]">>

QueryFieldEntity_Normalize(q) == ToLower(q)

\* the nil error
ErrNil == "nil"

(***************************************************************************)
(* DenicHandle                                                             *)
(***************************************************************************)
DenicHandle(regAccID, contactCode) ==
    [RegAccID |-> regAccID, ContactCode |-> contactCode]

DenicHandle_IsEmpty(h) == h.RegAccID = 0 /\ Len(h.ContactCode) = 0

DenicHandle_String(h) ==
    IF DenicHandle_IsEmpty(h) THEN <<>>
    ELSE <<"D", "E", "N", "I", "C", "-">> \o Itoa(h.RegAccID) \o <<"-">> \o ToUpper(h.ContactCode)

NewDenicHandle(regAccID, contactCode) == DenicHandle(regAccID, ToUpper(contactCode))

EmptyDenicHandle == DenicHandle(0, <<>>)

ErrInvalidHandle == "invalid handle"

\* ParseDenicHandle splitting at every '-'
ParseDenicHandle_SplitsEveryDash(s) ==
    LET parts == Split(s, <<"-">>)
        regAccID == Atoi(parts[2])
    IN  IF Len(s) = 0 THEN [val |-> EmptyDenicHandle, err |-> ErrNil]
        ELSE IF Len(parts) # 3 THEN [val |-> DenicHandle(0, <<>>), err |-> ErrInvalidHandle]
        ELSE IF ToUpper(parts[1]) # <<"D", "E", "N", "I", "C">>
             THEN [val |-> DenicHandle(0, <<>>), err |-> ErrInvalidHandle]
        ELSE IF ~regAccID.ok THEN [val |-> DenicHandle(0, <<>>), err |-> ErrInvalidHandle]
        ELSE [val |-> NewDenicHandle(regAccID.val, ToUpper(parts[3])), err |-> ErrNil]

\* ParseDenicHandle comparing the prefix as written
ParseDenicHandle_CaseSensitivePrefix(s) ==
    LET parts == SplitN(s, <<"-">>, 3)
        regAccID == Atoi(parts[2])
    IN  IF Len(s) = 0 THEN [val |-> EmptyDenicHandle, err |-> ErrNil]
        ELSE IF Len(parts) # 3 THEN [val |-> DenicHandle(0, <<>>), err |-> ErrInvalidHandle]
        ELSE IF parts[1] # <<"D", "E", "N", "I", "C">>
             THEN [val |-> DenicHandle(0, <<>>), err |-> ErrInvalidHandle]
        ELSE IF ~regAccID.ok THEN [val |-> DenicHandle(0, <<>>), err |-> ErrInvalidHandle]
        ELSE [val |-> NewDenicHandle(regAccID.val, ToUpper(parts[3])), err |-> ErrNil]

ParseDenicHandle(s) ==
    LET parts == SplitN(s, <<"-">>, 3)
        regAccID == Atoi(parts[2])
    IN  IF Len(s) = 0 THEN [val |-> EmptyDenicHandle, err |-> ErrNil]
        ELSE IF Len(parts) # 3 THEN [val |-> DenicHandle(0, <<>>), err |-> ErrInvalidHandle]
        ELSE IF ToUpper(parts[1]) # <<"D", "E", "N", "I", "C">>
             THEN [val |-> DenicHandle(0, <<>>), err |-> ErrInvalidHandle]
        ELSE IF ~regAccID.ok THEN [val |-> DenicHandle(0, <<>>), err |-> ErrInvalidHandle]
        ELSE [val |-> NewDenicHandle(regAccID.val, ToUpper(parts[3])), err |-> ErrNil]

(***************************************************************************)
(* The ordered field container (QueryFieldList).  Its source is not among  *)
(* the files of src/: it is modelled from sections 3, 4.1 and 6 of the     *)
(* specification.  An entry is a (canonical field name, value) pair.       *)
(***************************************************************************)
QueryField(name, value) == [Name |-> name, Value |-> value]

NewQueryFieldList == <<>>

\* the entries one call Add(name, values...) appends: one per value, in call
\* order, the name in its canonical (lower-case) form
QueryFields(fieldName, values) ==
    [i \in 1..Len(values) |-> QueryField(QueryFieldName_Normalize(fieldName), values[i])]

\* Add(name, values...): those entries, after the entries already there
QueryFieldList_Add(l, fieldName, values) == l \o QueryFields(fieldName, values)

QueryFieldList_Values(l, fieldName) ==
    LET found == SelectSeq(l, LAMBDA f : f.Name = QueryFieldName_Normalize(fieldName))
    IN  [i \in 1..Len(found) |-> found[i].Value]

QueryFieldList_FirstValue(l, fieldName) ==
    LET values == QueryFieldList_Values(l, fieldName)
    IN  IF values = <<>> THEN <<>> ELSE values[1]

\* CopyTo(other): the receiver's entries appended to other, in order
QueryFieldList_CopyTo(l, other) == other \o l

(***************************************************************************)
(* Query, query.go                                                         *)
(***************************************************************************)
NilQuery == [nil |-> TRUE]

Query(l) == [fields |-> l]

Query_FirstField(q, fieldName) == QueryFieldList_FirstValue(q.fields, fieldName)

Query_Field(q, fieldName) == QueryFieldList_Values(q.fields, fieldName)

Query_Version(q) == Version_Normalize(Query_FirstField(q, QueryFieldNameVersion))

Query_Action(q) == QueryAction_Normalize(Query_FirstField(q, QueryFieldNameAction))

\* what the body of EncodeKV's loop writes for the entry f after the separator
EncodeKVEntry(f) ==
    (IF f.Name # QueryFieldNameEntity THEN f.Name \o <<":", " ">> ELSE <<>>) \o f.Value

\* EncodeKV writing the name of every entry, an entity marker's included
Query_EncodeKV_NamesEveryEntry(q) ==
    LET l == q.fields
        written == [i \in 1..Len(l) |-> l[i].Name \o <<":", " ">> \o l[i].Value]
    IN  Concat([i \in 1..Len(l) |->
                   (IF \E j \in 1..(i - 1) : Len(written[j]) > 0 THEN <<"\n">> ELSE <<>>)
                   \o written[i]])

\* EncodeKV: the loop writes a newline before an entry when the builder is not
\* empty, that is when an earlier entry has written a character
Query_EncodeKV(q) ==
    LET l == q.fields
        written == [i \in 1..Len(l) |-> EncodeKVEntry(l[i])]
    IN  Concat([i \in 1..Len(l) |->
                   (IF \E j \in 1..(i - 1) : Len(written[j]) > 0 THEN <<"\n">> ELSE <<>>)
                   \o written[i]])

ErrMalformedLine == "query line must be key-value separated by ':'"

ErrVersionMissing == "version key is missing"

ErrMultipleVersion == "multiple version values"

ErrActionMissing == "action key is missing"

ErrMultipleAction == "multiple action values"

\* the body of ParseQueryKV's loop for a trimmed line that is not empty,
\* leaving the white space around the value
ParseQueryKVLine_KeepsValueSpace(line) ==
    LET parts == SplitN(line, <<":">>, 2)
    IN  IF Len(parts) # 2
        THEN [fields |-> <<>>, err |-> ErrMalformedLine]
        ELSE [fields |-> QueryFields(TrimSpace(parts[1]), <<parts[2]>>),
              err |-> ErrNil]

\* the body of ParseQueryKV's loop for a trimmed line that is not empty,
\* splitting the line at every ':'
ParseQueryKVLine_SplitsEveryColon(line) ==
    LET parts == Split(line, <<":">>)
    IN  IF Len(parts) # 2
        THEN [fields |-> <<>>, err |-> ErrMalformedLine]
        ELSE [fields |-> QueryFields(TrimSpace(parts[1]), <<TrimSpace(parts[2])>>),
              err |-> ErrNil]

\* the body of ParseQueryKV's loop for a trimmed line that is not empty: the
\* entry it adds, or the error it returns
ParseQueryKVLine(line) ==
    LET parts == SplitN(line, <<":">>, 2)
    IN  IF Len(parts) # 2
        THEN [fields |-> <<>>, err |-> ErrMalformedLine]
        ELSE [fields |-> QueryFields(TrimSpace(parts[1]), <<TrimSpace(parts[2])>>),
              err |-> ErrNil]

\* the loop of ParseQueryKV: the entries of the lines in order, or the error
\* of the first line that has no ':' (every such line gives the same error)
ParseQueryKVLoop(lines) ==
    LET trimmed == [i \in 1..Len(lines) |-> TrimSpace(lines[i])]
        read == [i \in 1..Len(lines) |->
                    IF Len(trimmed[i]) = 0
                    THEN [fields |-> <<>>, err |-> ErrNil]
                    ELSE ParseQueryKVLine(trimmed[i])]
    IN  IF \E i \in 1..Len(lines) : read[i].err # ErrNil
        THEN [fields |-> <<>>, err |-> ErrMalformedLine]
        ELSE [fields |-> Concat([i \in 1..Len(lines) |-> read[i].fields]), err |-> ErrNil]

\* ParseQueryKV without its check for a second version value
ParseQueryKV_AcceptsDuplicateVersion(s) ==
    LET read == ParseQueryKVLoop(Split(s, <<"\n">>))
        versionValues == QueryFieldList_Values(read.fields, QueryFieldNameVersion)
        actionValues == QueryFieldList_Values(read.fields, QueryFieldNameAction)
    IN  IF read.err # ErrNil THEN [val |-> NilQuery, err |-> read.err]
        ELSE IF Len(versionValues) = 0 THEN [val |-> NilQuery, err |-> ErrVersionMissing]
        ELSE IF Len(actionValues) = 0 THEN [val |-> NilQuery, err |-> ErrActionMissing]
        ELSE IF Len(actionValues) > 1 THEN [val |-> NilQuery, err |-> ErrMultipleAction]
        ELSE [val |-> Query(read.fields), err |-> ErrNil]

ParseQueryKV(s) ==
    LET read == ParseQueryKVLoop(Split(s, <<"\n">>))
        versionValues == QueryFieldList_Values(read.fields, QueryFieldNameVersion)
        actionValues == QueryFieldList_Values(read.fields, QueryFieldNameAction)
    IN  IF read.err # ErrNil THEN [val |-> NilQuery, err |-> read.err]
        ELSE IF Len(versionValues) = 0 THEN [val |-> NilQuery, err |-> ErrVersionMissing]
        ELSE IF Len(versionValues) > 1 THEN [val |-> NilQuery, err |-> ErrMultipleVersion]
        ELSE IF Len(actionValues) = 0 THEN [val |-> NilQuery, err |-> ErrActionMissing]
        ELSE IF Len(actionValues) > 1 THEN [val |-> NilQuery, err |-> ErrMultipleAction]
        ELSE [val |-> Query(read.fields), err |-> ErrNil]

ParseQuery(s) == ParseQueryKV(s)

(***************************************************************************)
(* DomainData and ContactData                                              *)
(***************************************************************************)
splitLines(s) ==
    Split(ReplaceAll(ReplaceAll(s, <<"\r", "\n">>, <<"\n">>), <<"\r">>, <<"\n">>), <<"\n">>)

\* the closure putHandlesToQueryFields of DomainData.PutToQueryFields: the
\* entries it adds, one per handle that is not empty
putHandlesToQueryFields(fieldName, handles) ==
    LET kept == SelectSeq(handles, LAMBDA h : ~DenicHandle_IsEmpty(h))
    IN  QueryFields(fieldName, [i \in 1..Len(kept) |-> DenicHandle_String(kept[i])])

\* DomainData.PutToQueryFields adding a field for an empty handle as well
DomainData_PutsEmptyHandles(domainData, l) ==
    l \o QueryFields(QueryFieldNameHolder,
                     [i \in 1..Len(domainData.HolderHandles) |->
                         DenicHandle_String(domainData.HolderHandles[i])])
      \o QueryFields(QueryFieldNameGeneralRequest,
                     [i \in 1..Len(domainData.GeneralRequestHandles) |->
                         DenicHandle_String(domainData.GeneralRequestHandles[i])])
      \o QueryFields(QueryFieldNameAbuseContact,
                     [i \in 1..Len(domainData.AbuseContactHandles) |->
                         DenicHandle_String(domainData.AbuseContactHandles[i])])
      \o QueryFields(QueryFieldNameNameServer, domainData.NameServers)

\* the calls of DomainData.PutToQueryFields, each adding after the one before
DomainData_PutToQueryFields(domainData, l) ==
    l \o putHandlesToQueryFields(QueryFieldNameHolder, domainData.HolderHandles)
      \o putHandlesToQueryFields(QueryFieldNameGeneralRequest, domainData.GeneralRequestHandles)
      \o putHandlesToQueryFields(QueryFieldNameAbuseContact, domainData.AbuseContactHandles)
      \o QueryFields(QueryFieldNameNameServer, domainData.NameServers)

\* The verification-information sub-record.  Its source is not among the files
\* of src/: by sections 4.1, 4.5 and 6 of the specification it puts its entity
\* marker, the bracketed lower-case entity name, and then its own fields.
VerificationInformation_PutToQueryFields(v, l) ==
    l \o QueryFields(QueryFieldNameEntity,
                     <<QueryFieldEntity_String(
                           QueryFieldEntity_Normalize(QueryEntityVerificationInformation))>>)
      \o QueryFields(QueryFieldNameVerifiedClaim, <<v.VerifiedClaim>>)
      \o QueryFields(QueryFieldNameVerificationResult, <<v.VerificationResult>>)
      \o QueryFields(QueryFieldNameVerificationReference, <<v.VerificationReference>>)
      \o QueryFields(QueryFieldNameVerificationTimestamp, <<v.VerificationTimestamp>>)
      \o QueryFields(QueryFieldNameVerificationEvidence, <<v.VerificationEvidence>>)
      \o QueryFields(QueryFieldNameVerificationMethod, <<v.VerificationMethod>>)
      \o QueryFields(QueryFieldNameTrustFramework, <<v.TrustFramework>>)

\* the loop of ContactData.PutToQueryFields over the sub-records: each puts
\* its entries after those of the one before
putVerificationInformation(infos, l) ==
    l \o Concat([i \in 1..Len(infos) |->
                    VerificationInformation_PutToQueryFields(infos[i], <<>>)])

\* ContactData.PutToQueryFields putting organisation and address as one value each
ContactData_PutsWholeText(contactData, l) ==
    putVerificationInformation(contactData.VerificationInformation,
        l \o QueryFields(QueryFieldNameType, <<ContactType_Normalize(contactData.Type)>>)
          \o QueryFields(QueryFieldNameName, <<contactData.Name>>)
          \o QueryFields(QueryFieldNameOrganisation, <<contactData.Organisation>>)
          \o QueryFields(QueryFieldNameAddress, <<contactData.Address>>)
          \o QueryFields(QueryFieldNamePostalCode, <<contactData.PostalCode>>)
          \o QueryFields(QueryFieldNameCity, <<contactData.City>>)
          \o QueryFields(QueryFieldNameCountryCode, <<contactData.CountryCode>>)
          \o QueryFields(QueryFieldNameEMail, contactData.EMail)
          \o QueryFields(QueryFieldNamePhone, <<contactData.Phone>>))

\* the calls of ContactData.PutToQueryFields, each adding after the one before
ContactData_PutToQueryFields(contactData, l) ==
    putVerificationInformation(contactData.VerificationInformation,
        l \o QueryFields(QueryFieldNameType, <<ContactType_Normalize(contactData.Type)>>)
          \o QueryFields(QueryFieldNameName, <<contactData.Name>>)
          \o QueryFields(QueryFieldNameOrganisation, splitLines(contactData.Organisation))
          \o QueryFields(QueryFieldNameAddress, splitLines(contactData.Address))
          \o QueryFields(QueryFieldNamePostalCode, <<contactData.PostalCode>>)
          \o QueryFields(QueryFieldNameCity, <<contactData.City>>)
          \o QueryFields(QueryFieldNameCountryCode, <<contactData.CountryCode>>)
          \o QueryFields(QueryFieldNameEMail, contactData.EMail)
          \o QueryFields(QueryFieldNamePhone, <<contactData.Phone>>))

(***************************************************************************)
(* PutDomainToQueryFields.  The IDNA codec is a collaborator: idna holds   *)
(* what idna.ToUnicode(domain) and idna.ToASCII(domain) answer, each a     *)
(* [val, err] of the caller's choice.                                      *)
(***************************************************************************)
\* PutDomainToQueryFields adding the converted name whether or not the conversion failed
PutDomainToQueryFields_IgnoresErr(l, domain, idna) ==
    IF HasPrefix(ToLower(domain), <<"x", "n", "-", "-">>)
    THEN QueryFieldList_Add(QueryFieldList_Add(l, QueryFieldNameDomainACE, <<domain>>),
                            QueryFieldNameDomainIDN, <<idna.toUnicode.val>>)
    ELSE QueryFieldList_Add(QueryFieldList_Add(l, QueryFieldNameDomainIDN, <<domain>>),
                            QueryFieldNameDomainACE, <<idna.toASCII.val>>)

PutDomainToQueryFields(l, domain, idna) ==
    IF HasPrefix(ToLower(domain), <<"x", "n", "-", "-">>)
    THEN LET l1 == QueryFieldList_Add(l, QueryFieldNameDomainACE, <<domain>>)
         IN  IF idna.toUnicode.err = ErrNil
             THEN QueryFieldList_Add(l1, QueryFieldNameDomainIDN, <<idna.toUnicode.val>>)
             ELSE l1
    ELSE LET l1 == QueryFieldList_Add(l, QueryFieldNameDomainIDN, <<domain>>)
         IN  IF idna.toASCII.err = ErrNil
             THEN QueryFieldList_Add(l1, QueryFieldNameDomainACE, <<idna.toASCII.val>>)
             ELSE l1

(***************************************************************************)
(* The query constructors, query.go.  The fields handed to NewQuery are a  *)
(* list or nil.                                                            *)
(***************************************************************************)
NilFieldList == [isNil |-> TRUE, entries |-> <<>>]

FieldList(l) == [isNil |-> FALSE, entries |-> l]

\* NewQuery adding the action before the version
NewQuery_ActionFirst(version, action, fieldList) ==
    LET l1 == QueryFieldList_Add(NewQueryFieldList, QueryFieldNameAction,
                                 <<QueryAction_Normalize(action)>>)
        l2 == QueryFieldList_Add(l1, QueryFieldNameVersion, <<Version_Normalize(version)>>)
    IN  Query(IF ~fieldList.isNil THEN QueryFieldList_CopyTo(fieldList.entries, l2) ELSE l2)

\* NewQuery adding the version once more after the copied fields
NewQuery_VersionTwice(version, action, fieldList) ==
    LET l1 == QueryFieldList_Add(NewQueryFieldList, QueryFieldNameVersion,
                                 <<Version_Normalize(version)>>)
        l2 == QueryFieldList_Add(l1, QueryFieldNameAction, <<QueryAction_Normalize(action)>>)
        l3 == IF ~fieldList.isNil THEN QueryFieldList_CopyTo(fieldList.entries, l2) ELSE l2
    IN  Query(QueryFieldList_Add(l3, QueryFieldNameVersion, <<Version_Normalize(version)>>))

NewQuery(version, action, fieldList) ==
    LET l1 == QueryFieldList_Add(NewQueryFieldList, QueryFieldNameVersion,
                                 <<Version_Normalize(version)>>)
        l2 == QueryFieldList_Add(l1, QueryFieldNameAction, <<QueryAction_Normalize(action)>>)
    IN  Query(IF ~fieldList.isNil THEN QueryFieldList_CopyTo(fieldList.entries, l2) ELSE l2)

NewLoginQuery(username, password) ==
    LET l1 == QueryFieldList_Add(NewQueryFieldList, QueryFieldNameUser, <<username>>)
        l2 == QueryFieldList_Add(l1, QueryFieldNamePassword, <<password>>)
    IN  NewQuery(LatestVersion, ActionLogin, FieldList(l2))

NewLogoutQuery == NewQuery(LatestVersion, ActionLogout, NilFieldList)

NewCreateContactQuery(h, contactData) ==
    LET l1 == QueryFieldList_Add(NewQueryFieldList, QueryFieldNameHandle,
                                 <<DenicHandle_String(h)>>)
        l2 == ContactData_PutToQueryFields(contactData, l1)
    IN  NewQuery(LatestVersion, ActionCreate, FieldList(l2))

NewCheckHandleQuery(h) ==
    NewQuery(LatestVersion, ActionCheck,
             FieldList(QueryFieldList_Add(NewQueryFieldList, QueryFieldNameHandle,
                                          <<DenicHandle_String(h)>>)))

NewInfoHandleQuery(h) ==
    NewQuery(LatestVersion, ActionInfo,
             FieldList(QueryFieldList_Add(NewQueryFieldList, QueryFieldNameHandle,
                                          <<DenicHandle_String(h)>>)))

NewCreateDomainQuery(domain, domainData, idna) ==
    LET l1 == PutDomainToQueryFields(NewQueryFieldList, domain, idna)
        l2 == DomainData_PutToQueryFields(domainData, l1)
    IN  NewQuery(LatestVersion, ActionCreate, FieldList(l2))

NewCheckDomainQuery(domain, idna) ==
    NewQuery(LatestVersion, ActionCheck,
             FieldList(PutDomainToQueryFields(NewQueryFieldList, domain, idna)))

NewInfoDomainQuery(domain, idna) ==
    NewQuery(LatestVersion, ActionInfo,
             FieldList(PutDomainToQueryFields(NewQueryFieldList, domain, idna)))

NewUpdateDomainQuery(domain, domainData, idna) ==
    LET l1 == PutDomainToQueryFields(NewQueryFieldList, domain, idna)
        l2 == DomainData_PutToQueryFields(domainData, l1)
    IN  NewQuery(LatestVersion, ActionUpdate, FieldList(l2))

NewChangeHolderQuery(domain, domainData, idna) ==
    LET l1 == PutDomainToQueryFields(NewQueryFieldList, domain, idna)
        l2 == DomainData_PutToQueryFields(domainData, l1)
    IN  NewQuery(LatestVersion, ActionChangeHolder, FieldList(l2))

NewDeleteDomainQuery(domain, idna) ==
    NewQuery(LatestVersion, ActionDelete,
             FieldList(PutDomainToQueryFields(NewQueryFieldList, domain, idna)))

NewRestoreDomainQuery(domain, idna) ==
    NewQuery(LatestVersion, ActionRestore,
             FieldList(PutDomainToQueryFields(NewQueryFieldList, domain, idna)))

NewTransitDomainQuery(domain, disconnect, idna) ==
    LET l1 == PutDomainToQueryFields(NewQueryFieldList, domain, idna)
        l2 == IF disconnect
              THEN QueryFieldList_Add(l1, QueryFieldNameDisconnect, << <<"t", "r", "u", "e">> >>)
              ELSE QueryFieldList_Add(l1, QueryFieldNameDisconnect, << <<"f", "a", "l", "s", "e">> >>)
    IN  NewQuery(LatestVersion, ActionTransit, FieldList(l2))

computeHashSHA256(s) == HexEncodeToString(Sha256Sum(s))

NewCreateAuthInfo1Query(domain, authInfo, expireDay, idna) ==
    LET l1 == PutDomainToQueryFields(NewQueryFieldList, domain, idna)
        l2 == QueryFieldList_Add(l1, QueryFieldNameAuthInfoHash, <<computeHashSHA256(authInfo)>>)
        l3 == QueryFieldList_Add(l2, QueryFieldNameAuthInfoExpire,
                                 <<TimeFormat20060102(expireDay)>>)
    IN  NewQuery(LatestVersion, ActionCreateAuthInfo1, FieldList(l3))

NewCreateAuthInfo2Query(domain, idna) ==
    NewQuery(LatestVersion, ActionCreateAuthInfo2,
             FieldList(PutDomainToQueryFields(NewQueryFieldList, domain, idna)))

NewChangeProviderQuery(domain, authInfo, domainData, idna) ==
    LET l1 == PutDomainToQueryFields(NewQueryFieldList, domain, idna)
        l2 == DomainData_PutToQueryFields(domainData, l1)
        l3 == QueryFieldList_Add(l2, QueryFieldNameAuthInfo, <<authInfo>>)
    IN  NewQuery(LatestVersion, ActionChangeProvider, FieldList(l3))

NewQueueReadQuery(msgType) ==
    LET l1 == IF Len(msgType) > 0
              THEN QueryFieldList_Add(NewQueryFieldList, QueryFieldNameMsgType, <<msgType>>)
              ELSE NewQueryFieldList
    IN  NewQuery(LatestVersion, ActionQueueRead, FieldList(l1))

NewQueueDeleteQuery(msgID, msgType) ==
    LET l1 == QueryFieldList_Add(NewQueryFieldList, QueryFieldNameMsgID, <<msgID>>)
        l2 == IF Len(msgType) > 0
              THEN QueryFieldList_Add(l1, QueryFieldNameMsgType, <<msgType>>)
              ELSE l1
    IN  NewQuery(LatestVersion, ActionQueueDelete, FieldList(l2))

(***************************************************************************)
(* The state machine: a caller of the package.                             *)
(***************************************************************************)
NoArg == [op |-> "none"]

NoResult == [val |-> NilQuery, err |-> ErrNil]

\* the lines a wire text is made of
WireLines ==
    { <<"v", "e", "r", "s", "i", "o", "n", ":", " ", "5", ".", "0">>, <<"V", "e", "r", "s", "i", "o", "n", ":", "1">>, <<"a", "c", "t", "i", "o", "n", ":", " ", "L", "O", "G", "I", "N">>, <<" ", "a", "c", "t", "i", "o", "n", " ", ":", " ", "a", ":", "b", " ">>,
      <<"u", "s", "e", "r", ":", " ", "a", "l", "i", "c", "e">>, <<"g", "a", "r", "b", "a", "g", "e", "-", "n", "o", "-", "c", "o", "l", "o", "n">>, <<>>, <<" ", "\r">>, <<"e", "n", "t", "i", "t", "y", ":", " ", "[", "e", "]">>,
      <<"e", "n", "t", "i", "t", "y", ":">>, <<":", " ", "v">> }

RECURSIVE SeqsUpTo(_, _)
SeqsUpTo(S, n) ==
    IF n = 0 THEN {<<>>}
    ELSE LET shorter == SeqsUpTo(S, n - 1)
         IN  shorter \cup {Append(s, x) : s \in {t \in shorter : Len(t) = n - 1}, x \in S}

WireTexts == {Join(lines, <<"\n">>) : lines \in SeqsUpTo(WireLines, MaxLines)}

\* the caller holds a wire text
InitParse ==
    /\ pc = "init"
    /\ arg = NoArg
    /\ str \in WireTexts
    /\ fields = NewQueryFieldList
    /\ query = NilQuery
    /\ handle = EmptyDenicHandle
    /\ res = NoResult

\* res = ParseQueryKV(str); a caller that parses a text it received keeps the query
ParseQueryKVAct ==
    /\ pc \in {"init", "encoded"}
    /\ res' = ParseQueryKV(str)
    /\ pc' = IF pc = "init" THEN "parsed" ELSE "reparsed"
    /\ query' = IF pc = "init" THEN res'.val ELSE query
    /\ UNCHANGED <<arg, str, fields, handle>>

ParseQueryAct ==
    /\ pc = "init"
    /\ res' = ParseQuery(str)
    /\ pc' = "parsed"
    /\ query' = res'.val
    /\ UNCHANGED <<arg, str, fields, handle>>

\* str = query.EncodeKV()
EncodeKVAct ==
    /\ pc \in {"parsed", "built"}
    /\ query # NilQuery
    /\ str' = Query_EncodeKV(query)
    /\ pc' = "encoded"
    /\ UNCHANGED <<arg, fields, query, handle, res>>

NextParse == ParseQueryKVAct \/ ParseQueryAct \/ EncodeKVAct

SpecParse == InitParse /\ [][NextParse]_vars

(***************************************************************************)
(* A caller of the handle functions: it holds a text and parses it, or it  *)
(* builds a handle, formats it and parses the text back.                   *)
(***************************************************************************)
HandleSegments ==
    { <<"D", "E", "N", "I", "C">>, <<"d", "e", "n", "i", "c">>, <<"F", "O", "O">>, <<>>, <<"0">>, <<"1", "2">>, <<"+", "5">>, <<"x", "1">>, <<"s", "o", "m", "e", "-", "C", "o", "d", "e">> }

HandleTexts == {Join(segs, <<"-">>) : segs \in SeqsUpTo(HandleSegments, MaxSegments)}

RegAccIDs == (-1..MaxRegAccID) \cup {10, 1000006}

ContactCodes == { <<>>, <<"x">>, <<"S", "O", "M", "E", "-", "C", "O", "D", "E">>, <<"a", "-", "b">>, <<"-">>, <<"A", "b", "1">> }

InitHandle ==
    /\ pc = "init"
    /\ arg = NoArg
    /\ str \in HandleTexts
    /\ fields = NewQueryFieldList
    /\ query = NilQuery
    /\ handle = EmptyDenicHandle
    /\ res = NoResult

NewDenicHandleAct ==
    /\ pc = "init"
    /\ str = <<>>
    /\ \E regAccID \in RegAccIDs, contactCode \in ContactCodes :
          /\ handle' = NewDenicHandle(regAccID, contactCode)
          /\ arg' = [op |-> "NewDenicHandle", regAccID |-> regAccID,
                     contactCode |-> contactCode]
    /\ pc' = "constructed"
    /\ UNCHANGED <<str, fields, query, res>>

EmptyDenicHandleAct ==
    /\ pc = "init"
    /\ str = <<>>
    /\ handle' = EmptyDenicHandle
    /\ arg' = [op |-> "EmptyDenicHandle"]
    /\ pc' = "constructed"
    /\ UNCHANGED <<str, fields, query, res>>

\* str = handle.String()
DenicHandleStringAct ==
    /\ pc = "constructed"
    /\ str' = DenicHandle_String(handle)
    /\ pc' = "formatted"
    /\ UNCHANGED <<arg, fields, query, handle, res>>

\* res = ParseDenicHandle(str)
ParseDenicHandleAct ==
    /\ pc \in {"init", "formatted"}
    /\ res' = ParseDenicHandle(str)
    /\ pc' = IF pc = "init" THEN "parsed" ELSE "reparsed"
    /\ UNCHANGED <<arg, str, fields, query, handle>>

NextHandle ==
    \/ NewDenicHandleAct
    \/ EmptyDenicHandleAct
    \/ DenicHandleStringAct
    \/ ParseDenicHandleAct

SpecHandle == InitHandle /\ [][NextHandle]_vars

(***************************************************************************)
(* A caller that projects a record or a domain name into its container.    *)
(***************************************************************************)
\* the containers a caller holds before the call
PreFields ==
    { NewQueryFieldList,
      <<QueryField(QueryFieldNameHolder, <<"D", "E", "N", "I", "C", "-", "9", "-", "O", "L", "D">>)>>,
      <<QueryField(QueryFieldNameDomainIDN, <<"o", "l", "d", ".", "d", "e">>),
        QueryField(QueryFieldNameNameServer, <<"n", "s", "0", ".", "o", "l", "d", ".", "d", "e">>)>> }

DomainHandles ==
    { EmptyDenicHandle, NewDenicHandle(1, <<"a">>), DenicHandle(0, <<"X">>),
      NewDenicHandle(12, <<"b", "-", "c">>) }

FewHandles == { EmptyDenicHandle, NewDenicHandle(1, <<"a">>) }

NameServerLists == { <<>>, << <<"n", "s", "1", ".", "e", "x", "a", "m", "p", "l", "e", ".", "d", "e">> >>, << <<"n", "s", "2", ".", "e", "x", "a", "m", "p", "l", "e", ".", "d", "e">>, <<"n", "s", "1", ".", "e", "x", "a", "m", "p", "l", "e", ".", "d", "e">> >> }

DomainDatas ==
    [ HolderHandles : SeqsUpTo(DomainHandles, MaxHandles),
      GeneralRequestHandles : SeqsUpTo(FewHandles, 1),
      AbuseContactHandles : SeqsUpTo(FewHandles, 1),
      NameServers : NameServerLists ]

\* domain names; a character outside ASCII is written as its code point
Domains ==
    { <<"e", "x", "a", "m", "p", "l", "e", ".", "d", "e">>, <<"x", "n", "-", "-", "m", "n", "c", "h", "e", "n", "-", "3", "y", "a", ".", "d", "e">>, <<"X", "N", "-", "-", "M", "N", "C", "H", "E", "N", "-", "3", "Y", "A", ".", "D", "E">>, <<"x", "n", "-">>, <<>>,
      <<"m", "U+00FC", "n", "c", "h", "e", "n", ".", "d", "e">>, <<" ", "a", ".", "d", "e">> }

IdnaTexts ==
    { <<"e", "x", "a", "m", "p", "l", "e", ".", "d", "e">>, <<"x", "n", "-", "-", "m", "n", "c", "h", "e", "n", "-", "3", "y", "a", ".", "d", "e">>,
      <<"m", "U+00FC", "n", "c", "h", "e", "n", ".", "d", "e">> }

ErrIdna == "idna: invalid label"

\* what a conversion of the IDNA codec answers
ConvAnswers ==
    {[val |-> v, err |-> ErrNil] : v \in IdnaTexts} \cup {[val |-> <<>>, err |-> ErrIdna]}

IdnaAnswers == [toUnicode : ConvAnswers, toASCII : ConvAnswers]

VerificationInformations ==
    { [ VerifiedClaim |-> <<"n", "a", "m", "e">>, VerificationResult |-> <<"s", "u", "c", "c", "e", "s", "s">>,
        VerificationReference |-> <<"r", "1">>, VerificationTimestamp |-> <<"2", "0", "2", "4", "-", "0", "1", "-", "0", "5">>,
        VerificationEvidence |-> <<"i", "d">>, VerificationMethod |-> <<"a", "u", "t", "h">>,
        TrustFramework |-> <<"d", "e", "_", "a", "m", "l">> ],
      [ VerifiedClaim |-> <<"e", "m", "a", "i", "l">>, VerificationResult |-> <<>>, 
        VerificationReference |-> <<"r", "2">>, VerificationTimestamp |-> <<"2", "0", "2", "4", "-", "0", "1", "-", "0", "6">>,
        VerificationEvidence |-> <<>>, VerificationMethod |-> <<"m", "a", "i", "l">>,
        TrustFramework |-> <<>> ] }

ContactDatas ==
    [ Type : { <<"p", "e", "r", "s", "o", "n">>, <<"O", "R", "G">> },
      Name : { <<"M", "a", "x">>, <<"a", "\n", "b">> },
      Organisation : { <<>>, <<"o", "1", "\r", "\n", "o", "2">>, <<"o", "\r", "o", "\n">>, <<"x", "\r", "\r", "\n", "y">> },
      Address : { <<"S", "t", "r", "e", "e", "t", " ", "1">>, <<"l", "1", "\n", "l", "2", "\r", "\n">> },
      PostalCode : { <<"6", "0", "3", "2", "9">> },
      City : { <<"F", "r", "a", "n", "k", "f", "u", "r", "t">> },
      CountryCode : { <<"D", "E">> },
      EMail : { <<>>, << <<"a", "@", "b", ".", "d", "e">> >>, << <<"a", "@", "b", ".", "d", "e">>, <<"c", "@", "d", ".", "d", "e">> >> },
      Phone : { <<"+", "4", "9", " ", "6", "9", " ", "1">> },
      VerificationInformation : SeqsUpTo(VerificationInformations, MaxVerifications) ]

InitFields ==
    /\ pc = "init"
    /\ arg = NoArg
    /\ str = <<>>
    /\ fields \in PreFields
    /\ query = NilQuery
    /\ handle = EmptyDenicHandle
    /\ res = NoResult

\* domainData.PutToQueryFields(&fields)
DomainDataPutToQueryFieldsAct ==
    /\ pc = "init"
    /\ \E domainData \in DomainDatas :
          /\ fields' = DomainData_PutToQueryFields(domainData, fields)
          /\ arg' = [op |-> "DomainData.PutToQueryFields", domainData |-> domainData,
                     fields |-> fields]
    /\ pc' = "put"
    /\ UNCHANGED <<str, query, handle, res>>

\* PutDomainToQueryFields(&fields, domain)
PutDomainToQueryFieldsAct ==
    /\ pc = "init"
    /\ \E domain \in Domains, idna \in IdnaAnswers :
          /\ fields' = PutDomainToQueryFields(fields, domain, idna)
          /\ arg' = [op |-> "PutDomainToQueryFields", domain |-> domain, idna |-> idna,
                     fields |-> fields]
    /\ pc' = "put"
    /\ UNCHANGED <<str, query, handle, res>>

NextDomain == DomainDataPutToQueryFieldsAct \/ PutDomainToQueryFieldsAct

SpecDomain == InitFields /\ [][NextDomain]_vars

\* contactData.PutToQueryFields(&fields)
ContactDataPutToQueryFieldsAct ==
    /\ pc = "init"
    /\ \E contactData \in ContactDatas :
          /\ fields' = ContactData_PutToQueryFields(contactData, fields)
          /\ arg' = [op |-> "ContactData.PutToQueryFields", contactData |-> contactData,
                     fields |-> fields]
    /\ pc' = "put"
    /\ UNCHANGED <<str, query, handle, res>>

NextContact == ContactDataPutToQueryFieldsAct

SpecContact == InitFields /\ [][NextContact]_vars

(***************************************************************************)
(* A caller of the query constructors: it builds a query, encodes it and   *)
(* parses the text back; or it holds a text it received and parses that.   *)
(***************************************************************************)
ReceivedTexts ==
    { <<"v", "e", "r", "s", "i", "o", "n", ":", " ", "5", ".", "0", "\n", "a", "c", "t", "i", "o", "n", ":", " ", "L", "O", "G", "I", "N", "\n", "u", "s", "e", "r", ":", " ", "a", "l", "i", "c", "e", "\n", "p", "a", "s", "s", "w", "o", "r", "d", ":", " ", "s", "e", "c", "r", "e", "t">>,
      <<"a", "c", "t", "i", "o", "n", ":", " ", "L", "O", "G", "I", "N", "\n", "v", "e", "r", "s", "i", "o", "n", ":", " ", "5", ".", "0">>,
      <<"u", "s", "e", "r", ":", " ", "x", "\n", "v", "e", "r", "s", "i", "o", "n", ":", " ", "5", ".", "0", "\n", "\n", "a", "c", "t", "i", "o", "n", ":", " ", "i", "n", "f", "o">>,
      <<"a", "c", "t", "i", "o", "n", ":", " ", "L", "O", "G", "I", "N">>,
      <<"g", "a", "r", "b", "a", "g", "e", "-", "n", "o", "-", "c", "o", "l", "o", "n">> }

ArgStrings == { <<"a", "l", "i", "c", "e">>, <<>>, <<" ", "s", "3", "c", "r", "e", "t">>, <<"a", "\n", "b">>, <<"x", ":", "y">> }

ExpireDays == { [Year |-> 2024, Month |-> 1, Day |-> 5], [Year |-> 1999, Month |-> 12, Day |-> 31] }

FewIdnaAnswers ==
    [ toUnicode : { [val |-> <<>>, err |-> ErrIdna],
                    [val |-> <<"m", "U+00FC", "n", "c", "h", "e", "n", ".", "d", "e">>,
                     err |-> ErrNil] },
      toASCII : { [val |-> <<>>, err |-> ErrIdna],
                  [val |-> <<"x", "n", "-", "-", "m", "n", "c", "h", "e", "n", "-", "3", "y", "a", ".", "d", "e">>, err |-> ErrNil] } ]

FewDomainDatas ==
    {d \in DomainDatas :
        /\ Len(d.HolderHandles) = 1
        /\ d.HolderHandles[1] \in FewHandles
        /\ d.GeneralRequestHandles = <<>>
        /\ Len(d.AbuseContactHandles) = 1
        /\ Len(d.NameServers) = 2}

FewContactDatas ==
    {c \in ContactDatas :
        /\ c.Organisation \in { <<>>, <<"o", "1", "\r", "\n", "o", "2">> }
        /\ c.Address = <<"S", "t", "r", "e", "e", "t", " ", "1">>
        /\ Len(c.EMail) = 1}

\* the lists a caller hands to NewQuery
SuppliedFieldLists ==
    {NilFieldList} \cup
    {FieldList(l) : l \in PreFields \cup
        { <<QueryField(QueryFieldNameVersion, <<"1", ".", "0">>)>>,
          <<QueryField(QueryFieldNameUser, <<"u">>), QueryField(QueryFieldNameAction, <<"x">>)>>,
          <<QueryField(QueryFieldNameName, <<"a", "\n", "b">>)>>,
          <<QueryField(<<"x", "\n", "y">>, <<"v">>)>>,
          <<QueryField(QueryFieldNameEntity, <<"[", "e", "]">>), QueryField(QueryFieldNameName, <<"n">>)>>,
          <<QueryField(QueryFieldNameUser, <<"u">>), QueryField(QueryFieldNameEntity, <<>>),
            QueryField(QueryFieldNameName, <<"n">>)>> }}

InitQuery ==
    /\ pc = "init"
    /\ arg = NoArg
    /\ str \in ReceivedTexts \cup {<<>>}
    /\ fields = NewQueryFieldList
    /\ query = NilQuery
    /\ handle = EmptyDenicHandle
    /\ res = NoResult

\* a caller that builds a query holds no text yet
CanBuild == pc = "init" /\ str = <<>>

NewQueryAct ==
    /\ CanBuild
    /\ \E version \in {LatestVersion, <<>>}, action \in { <<"l", "o", "g", "i", "n">>, ActionCheck }, fieldList \in SuppliedFieldLists :
          /\ query' = NewQuery(version, action, fieldList)
          /\ arg' = [op |-> "NewQuery", version |-> version, action |-> action, fieldList |-> fieldList]
    /\ pc' = "built"
    /\ UNCHANGED <<str, fields, handle, res>>

NewLoginQueryAct ==
    /\ CanBuild
    /\ \E username \in ArgStrings, password \in ArgStrings :
          /\ query' = NewLoginQuery(username, password)
          /\ arg' = [op |-> "NewLoginQuery", username |-> username, password |-> password]
    /\ pc' = "built"
    /\ UNCHANGED <<str, fields, handle, res>>

NewLogoutQueryAct ==
    /\ CanBuild
    /\ query' = NewLogoutQuery
    /\ arg' = [op |-> "NewLogoutQuery"]
    /\ pc' = "built"
    /\ UNCHANGED <<str, fields, handle, res>>

NewCreateContactQueryAct ==
    /\ CanBuild
    /\ \E h \in FewHandles, contactData \in FewContactDatas :
          /\ query' = NewCreateContactQuery(h, contactData)
          /\ arg' = [op |-> "NewCreateContactQuery", handle |-> h, contactData |-> contactData]
    /\ pc' = "built"
    /\ UNCHANGED <<str, fields, handle, res>>

NewCheckHandleQueryAct ==
    /\ CanBuild
    /\ \E h \in DomainHandles :
          /\ query' = NewCheckHandleQuery(h)
          /\ arg' = [op |-> "NewCheckHandleQuery", handle |-> h]
    /\ pc' = "built"
    /\ UNCHANGED <<str, fields, handle, res>>

NewInfoHandleQueryAct ==
    /\ CanBuild
    /\ \E h \in DomainHandles :
          /\ query' = NewInfoHandleQuery(h)
          /\ arg' = [op |-> "NewInfoHandleQuery", handle |-> h]
    /\ pc' = "built"
    /\ UNCHANGED <<str, fields, handle, res>>

NewCreateDomainQueryAct ==
    /\ CanBuild
    /\ \E domain \in Domains, domainData \in FewDomainDatas, idna \in FewIdnaAnswers :
          /\ query' = NewCreateDomainQuery(domain, domainData, idna)
          /\ arg' = [op |-> "NewCreateDomainQuery", domain |-> domain, domainData |-> domainData, idna |-> idna]
    /\ pc' = "built"
    /\ UNCHANGED <<str, fields, handle, res>>

NewCheckDomainQueryAct ==
    /\ CanBuild
    /\ \E domain \in Domains, idna \in FewIdnaAnswers :
          /\ query' = NewCheckDomainQuery(domain, idna)
          /\ arg' = [op |-> "NewCheckDomainQuery", domain |-> domain, idna |-> idna]
    /\ pc' = "built"
    /\ UNCHANGED <<str, fields, handle, res>>

NewInfoDomainQueryAct ==
    /\ CanBuild
    /\ \E domain \in Domains, idna \in FewIdnaAnswers :
          /\ query' = NewInfoDomainQuery(domain, idna)
          /\ arg' = [op |-> "NewInfoDomainQuery", domain |-> domain, idna |-> idna]
    /\ pc' = "built"
    /\ UNCHANGED <<str, fields, handle, res>>

NewUpdateDomainQueryAct ==
    /\ CanBuild
    /\ \E domain \in Domains, domainData \in FewDomainDatas, idna \in FewIdnaAnswers :
          /\ query' = NewUpdateDomainQuery(domain, domainData, idna)
          /\ arg' = [op |-> "NewUpdateDomainQuery", domain |-> domain, domainData |-> domainData, idna |-> idna]
    /\ pc' = "built"
    /\ UNCHANGED <<str, fields, handle, res>>

NewChangeHolderQueryAct ==
    /\ CanBuild
    /\ \E domain \in Domains, domainData \in FewDomainDatas, idna \in FewIdnaAnswers :
          /\ query' = NewChangeHolderQuery(domain, domainData, idna)
          /\ arg' = [op |-> "NewChangeHolderQuery", domain |-> domain, domainData |-> domainData, idna |-> idna]
    /\ pc' = "built"
    /\ UNCHANGED <<str, fields, handle, res>>

NewDeleteDomainQueryAct ==
    /\ CanBuild
    /\ \E domain \in Domains, idna \in FewIdnaAnswers :
          /\ query' = NewDeleteDomainQuery(domain, idna)
          /\ arg' = [op |-> "NewDeleteDomainQuery", domain |-> domain, idna |-> idna]
    /\ pc' = "built"
    /\ UNCHANGED <<str, fields, handle, res>>

NewRestoreDomainQueryAct ==
    /\ CanBuild
    /\ \E domain \in Domains, idna \in FewIdnaAnswers :
          /\ query' = NewRestoreDomainQuery(domain, idna)
          /\ arg' = [op |-> "NewRestoreDomainQuery", domain |-> domain, idna |-> idna]
    /\ pc' = "built"
    /\ UNCHANGED <<str, fields, handle, res>>

NewTransitDomainQueryAct ==
    /\ CanBuild
    /\ \E domain \in Domains, disconnect \in BOOLEAN, idna \in FewIdnaAnswers :
          /\ query' = NewTransitDomainQuery(domain, disconnect, idna)
          /\ arg' = [op |-> "NewTransitDomainQuery", domain |-> domain, disconnect |-> disconnect, idna |-> idna]
    /\ pc' = "built"
    /\ UNCHANGED <<str, fields, handle, res>>

NewCreateAuthInfo1QueryAct ==
    /\ CanBuild
    /\ \E domain \in Domains, authInfo \in ArgStrings, expireDay \in ExpireDays, idna \in FewIdnaAnswers :
          /\ query' = NewCreateAuthInfo1Query(domain, authInfo, expireDay, idna)
          /\ arg' = [op |-> "NewCreateAuthInfo1Query", domain |-> domain, authInfo |-> authInfo, expireDay |-> expireDay, idna |-> idna]
    /\ pc' = "built"
    /\ UNCHANGED <<str, fields, handle, res>>

NewCreateAuthInfo2QueryAct ==
    /\ CanBuild
    /\ \E domain \in Domains, idna \in FewIdnaAnswers :
          /\ query' = NewCreateAuthInfo2Query(domain, idna)
          /\ arg' = [op |-> "NewCreateAuthInfo2Query", domain |-> domain, idna |-> idna]
    /\ pc' = "built"
    /\ UNCHANGED <<str, fields, handle, res>>

NewChangeProviderQueryAct ==
    /\ CanBuild
    /\ \E domain \in Domains, authInfo \in ArgStrings, domainData \in FewDomainDatas, idna \in FewIdnaAnswers :
          /\ query' = NewChangeProviderQuery(domain, authInfo, domainData, idna)
          /\ arg' = [op |-> "NewChangeProviderQuery", domain |-> domain, authInfo |-> authInfo, domainData |-> domainData, idna |-> idna]
    /\ pc' = "built"
    /\ UNCHANGED <<str, fields, handle, res>>

NewQueueReadQueryAct ==
    /\ CanBuild
    /\ \E msgType \in ArgStrings :
          /\ query' = NewQueueReadQuery(msgType)
          /\ arg' = [op |-> "NewQueueReadQuery", msgType |-> msgType]
    /\ pc' = "built"
    /\ UNCHANGED <<str, fields, handle, res>>

NewQueueDeleteQueryAct ==
    /\ CanBuild
    /\ \E msgID \in ArgStrings, msgType \in ArgStrings :
          /\ query' = NewQueueDeleteQuery(msgID, msgType)
          /\ arg' = [op |-> "NewQueueDeleteQuery", msgID |-> msgID, msgType |-> msgType]
    /\ pc' = "built"
    /\ UNCHANGED <<str, fields, handle, res>>

NextQuery ==
    \/ NewQueryAct
    \/ NewLoginQueryAct
    \/ NewLogoutQueryAct
    \/ NewCreateContactQueryAct
    \/ NewCheckHandleQueryAct
    \/ NewInfoHandleQueryAct
    \/ NewCreateDomainQueryAct
    \/ NewCheckDomainQueryAct
    \/ NewInfoDomainQueryAct
    \/ NewUpdateDomainQueryAct
    \/ NewChangeHolderQueryAct
    \/ NewDeleteDomainQueryAct
    \/ NewRestoreDomainQueryAct
    \/ NewTransitDomainQueryAct
    \/ NewCreateAuthInfo1QueryAct
    \/ NewCreateAuthInfo2QueryAct
    \/ NewChangeProviderQueryAct
    \/ NewQueueReadQueryAct
    \/ NewQueueDeleteQueryAct
    \/ EncodeKVAct
    \/ ParseQueryKVAct
    \/ ParseQueryAct

SpecQuery == InitQuery /\ [][NextQuery]_vars

(***************************************************************************)
(* Claims about ParseQueryKV                                               *)
(***************************************************************************)
\* the lines of s that are not blank once trimmed, trimmed, in order
NonBlankLines(s) ==
    LET trimmed == [i \in 1..Len(Split(s, <<"\n">>)) |-> TrimSpace(Split(s, <<"\n">>)[i])]
    IN  SelectSeq(trimmed, LAMBDA line : line # <<>>)

HasColon(line) == \E i \in 1..Len(line) : line[i] = ":"

FirstColon(line) ==
    CHOOSE i \in 1..Len(line) : line[i] = ":" /\ \A j \in 1..(i - 1) : line[j] # ":"

\* the entry a line with a ':' stands for
LineField(line) ==
    QueryField(ToLower(TrimSpace(SubSeq(line, 1, FirstColon(line) - 1))),
               TrimSpace(SubSeq(line, FirstColon(line) + 1, Len(line))))

LineFields(s) == [i \in 1..Len(NonBlankLines(s)) |-> LineField(NonBlankLines(s)[i])]

CountOf(l, name) == Cardinality({i \in 1..Len(l) : l[i].Name = name})

MissingErrors == {ErrVersionMissing, ErrActionMissing}

DuplicateErrors == {ErrMultipleVersion, ErrMultipleAction}

\* C1: ParseQueryKV(s) succeeds if and only if every non-blank line of s holds a
\* ':' and the fields hold exactly one version and exactly one action value;
\* otherwise it returns an error and no query.  A line without ':' gives the
\* malformed-line error; the missing error is given only when a required field
\* has no value and the duplicate error only when one has several, and each is
\* given whenever it is the only defect.  On success the fields are the lines'
\* fields, split at the first ':', name and value trimmed, in wire order.
C1_ParseQueryKV ==
    pc = "parsed" =>
        LET lines == NonBlankLines(str)
            wellFormed == \A i \in 1..Len(lines) : HasColon(lines[i])
            nVersion == CountOf(LineFields(str), QueryFieldNameVersion)
            nAction == CountOf(LineFields(str), QueryFieldNameAction)
            missing == nVersion = 0 \/ nAction = 0
            duplicate == nVersion > 1 \/ nAction > 1
        IN  /\ res.err = ErrNil <=> (wellFormed /\ nVersion = 1 /\ nAction = 1)
            /\ res.err # ErrNil => res.val = NilQuery
            /\ res.err = ErrMalformedLine <=> ~wellFormed
            /\ res.err \in MissingErrors => wellFormed /\ missing
            /\ res.err \in DuplicateErrors => wellFormed /\ duplicate
            /\ wellFormed /\ missing /\ ~duplicate => res.err \in MissingErrors
            /\ wellFormed /\ duplicate /\ ~missing => res.err \in DuplicateErrors
            /\ res.err = ErrNil => res.val = Query(LineFields(str))

\* a text with a blank line and a value that holds a second ':' is parsed
C1_Witness ==
    /\ pc = "parsed"
    /\ res.err = ErrNil
    /\ Len(Split(str, <<"\n">>)) > Len(res.val.fields)
    /\ \E i \in 1..Len(res.val.fields) : res.val.fields[i].Value = <<"a", ":", "b">>

(***************************************************************************)
(* Claims about the handle                                                 *)
(***************************************************************************)
\* C5: a handle built with a positive id and a non-empty code, '-' in the code
\* included, is what ParseDenicHandle reads from its String(); the empty handle
\* formats to the empty text, and the empty text parses to the empty handle.
C5_HandleRoundTrip ==
    /\ (pc = "reparsed" /\ handle.RegAccID > 0 /\ handle.ContactCode # <<>>)
          => res = [val |-> handle, err |-> ErrNil]
    /\ (pc = "formatted" /\ handle = EmptyDenicHandle) => str = <<>>
    /\ (pc \in {"parsed", "reparsed"} /\ str = <<>>)
          => res = [val |-> EmptyDenicHandle, err |-> ErrNil]

\* a handle whose code holds a '-' has gone through String and ParseDenicHandle
C5_Witness ==
    /\ pc = "reparsed"
    /\ handle.RegAccID > 9
    /\ \E i \in 1..Len(handle.ContactCode) : handle.ContactCode[i] = "-"
    /\ res.err = ErrNil
    /\ str = <<"D", "E", "N", "I", "C", "-", "1", "0", "0", "0", "0", "0", "6", "-", "S", "O", "M", "E", "-", "C", "O", "D", "E">>

Dashes(s) == {i \in 1..Len(s) : s[i] = "-"}

FirstDash(s) == CHOOSE i \in Dashes(s) : \A j \in Dashes(s) : i <= j

SecondDash(s) ==
    CHOOSE i \in Dashes(s) \ {FirstDash(s)} :
        \A j \in Dashes(s) \ {FirstDash(s)} : i <= j

\* a base-10 integer: an optional sign, then digits only, at least one
IsBase10(s) ==
    LET digits == IF s # <<>> /\ s[1] \in {"+", "-"} THEN Tail(s) ELSE s
    IN  digits # <<>> /\ \A i \in 1..Len(digits) : IsDigit(digits[i])

RECURSIVE Pow10(_)
Pow10(n) == IF n = 0 THEN 1 ELSE 10 * Pow10(n - 1)

RECURSIVE SumTo(_, _)
SumTo(f, n) == IF n = 0 THEN 0 ELSE f[n] + SumTo(f, n - 1)

Base10Value(s) ==
    LET digits == IF s[1] \in {"+", "-"} THEN Tail(s) ELSE s
        n == Len(digits)
        magnitude == SumTo([i \in 1..n |-> DigitValue(digits[i]) * Pow10(n - i)], n)
    IN  IF s[1] = "-" THEN -magnitude ELSE magnitude

\* C6: for a non-empty text ParseDenicHandle succeeds exactly when the text has
\* two '-' (three segments, the third taking the rest), the first segment is
\* DENIC in any case and the second a base-10 integer; the handle is then that
\* integer and the upper-cased third segment.  Otherwise it returns an error
\* and the empty handle.
C6_ParseDenicHandle ==
    (pc = "parsed" /\ str # <<>>) =>
        LET s == str
            first == SubSeq(s, 1, FirstDash(s) - 1)
            second == SubSeq(s, FirstDash(s) + 1, SecondDash(s) - 1)
            third == SubSeq(s, SecondDash(s) + 1, Len(s))
            wellFormed == /\ Cardinality(Dashes(s)) >= 2
                          /\ ToLower(first) = <<"d", "e", "n", "i", "c">>
                          /\ IsBase10(second)
        IN  IF wellFormed
            THEN res = [val |-> DenicHandle(Base10Value(second), ToUpper(third)),
                        err |-> ErrNil]
            ELSE res = [val |-> EmptyDenicHandle, err |-> ErrInvalidHandle]

\* a text in lower case whose third segment holds a '-' is parsed
C6_Witness ==
    /\ pc = "parsed"
    /\ str = <<"d", "e", "n", "i", "c", "-", "1", "2", "-", "s", "o", "m", "e", "-", "C", "o", "d", "e">>
    /\ res.val = DenicHandle(12, <<"S", "O", "M", "E", "-", "C", "O", "D", "E">>)

\* C11: every handle ParseDenicHandle returns without error for a non-empty
\* text has a positive id and an upper-case code and is not the empty handle
\* (its String() is not empty); the empty handle is returned without error
\* only for the empty text.
C11_ParsedHandleIsProper ==
    (pc \in {"parsed", "reparsed"} /\ res.err = ErrNil) =>
        /\ str # <<>> =>
              /\ res.val.RegAccID > 0
              /\ res.val.ContactCode = ToUpper(res.val.ContactCode)
              /\ res.val # EmptyDenicHandle
              /\ DenicHandle_String(res.val) # <<>>
        /\ res.val = EmptyDenicHandle => str = <<>>

(***************************************************************************)
(* Claims about the projections into the container                         *)
(***************************************************************************)
Entries(name, values) == [i \in 1..Len(values) |-> QueryField(name, values[i])]

\* the texts of the handles that are not the empty handle, in order
NonEmptyTexts(handles) ==
    LET kept == SelectSeq(handles, LAMBDA h : h # EmptyDenicHandle)
    IN  [i \in 1..Len(kept) |-> DenicHandle_String(kept[i])]

\* C7: DomainData.PutToQueryFields leaves the entries already there and appends
\* a holder entry per non-empty holder handle, then a generalrequest entry per
\* non-empty general-request handle, then an abusecontact entry per non-empty
\* abuse-contact handle, then an nserver entry per name server, each group in
\* the record's order; read back from a fresh container, the four names give
\* the non-empty handles' texts and the servers.
C7_DomainDataPutToQueryFields ==
    (pc = "put" /\ arg.op = "DomainData.PutToQueryFields") =>
        LET d == arg.domainData
        IN  /\ fields = arg.fields
                    \o Entries(<<"h", "o", "l", "d", "e", "r">>, NonEmptyTexts(d.HolderHandles))
                    \o Entries(<<"g", "e", "n", "e", "r", "a", "l", "r", "e", "q", "u", "e", "s", "t">>, NonEmptyTexts(d.GeneralRequestHandles))
                    \o Entries(<<"a", "b", "u", "s", "e", "c", "o", "n", "t", "a", "c", "t">>, NonEmptyTexts(d.AbuseContactHandles))
                    \o Entries(<<"n", "s", "e", "r", "v", "e", "r">>, d.NameServers)
            /\ arg.fields = <<>> =>
                  /\ QueryFieldList_Values(fields, QueryFieldNameHolder)
                        = NonEmptyTexts(d.HolderHandles)
                  /\ QueryFieldList_Values(fields, QueryFieldNameGeneralRequest)
                        = NonEmptyTexts(d.GeneralRequestHandles)
                  /\ QueryFieldList_Values(fields, QueryFieldNameAbuseContact)
                        = NonEmptyTexts(d.AbuseContactHandles)
                  /\ QueryFieldList_Values(fields, QueryFieldNameNameServer) = d.NameServers

\* a record with an empty handle between two others is put after older entries
C7_Witness ==
    /\ pc = "put"
    /\ arg.op = "DomainData.PutToQueryFields"
    /\ arg.fields # <<>>
    /\ Len(arg.domainData.HolderHandles) = 2
    /\ arg.domainData.HolderHandles[1] = EmptyDenicHandle
    /\ arg.domainData.HolderHandles[2] = DenicHandle(12, <<"B", "-", "C">>)
    /\ arg.domainData.GeneralRequestHandles = <<EmptyDenicHandle>>
    /\ Len(arg.domainData.NameServers) = 2
    /\ Len(fields) = Len(arg.fields) + 3

\* the physical lines of a text: a line ends at CRLF, at a lone CR or at LF
RECURSIVE PhysicalLines(_, _)
PhysicalLines(s, line) ==
    IF s = <<>> THEN <<line>>
    ELSE IF Len(s) >= 2 /\ s[1] = "\r" /\ s[2] = "\n"
         THEN <<line>> \o PhysicalLines(SubSeq(s, 3, Len(s)), <<>>)
    ELSE IF s[1] \in {"\r", "\n"}
         THEN <<line>> \o PhysicalLines(Tail(s), <<>>)
    ELSE PhysicalLines(Tail(s), Append(line, s[1]))

\* the entries of the sub-records: each its marker, then its seven fields
RECURSIVE VerificationEntries(_)
VerificationEntries(infos) ==
    IF infos = <<>> THEN <<>>
    ELSE << QueryField(<<"e", "n", "t", "i", "t", "y">>, <<"[", "v", "e", "r", "i", "f", "i", "c", "a", "t", "i", "o", "n", "i", "n", "f", "o", "r", "m", "a", "t", "i", "o", "n", "]">>),
            QueryField(<<"v", "e", "r", "i", "f", "i", "e", "d", "c", "l", "a", "i", "m">>, Head(infos).VerifiedClaim),
            QueryField(<<"v", "e", "r", "i", "f", "i", "c", "a", "t", "i", "o", "n", "r", "e", "s", "u", "l", "t">>, Head(infos).VerificationResult),
            QueryField(<<"v", "e", "r", "i", "f", "i", "c", "a", "t", "i", "o", "n", "r", "e", "f", "e", "r", "e", "n", "c", "e">>, Head(infos).VerificationReference),
            QueryField(<<"v", "e", "r", "i", "f", "i", "c", "a", "t", "i", "o", "n", "t", "i", "m", "e", "s", "t", "a", "m", "p">>, Head(infos).VerificationTimestamp),
            QueryField(<<"v", "e", "r", "i", "f", "i", "c", "a", "t", "i", "o", "n", "e", "v", "i", "d", "e", "n", "c", "e">>, Head(infos).VerificationEvidence),
            QueryField(<<"v", "e", "r", "i", "f", "i", "c", "a", "t", "i", "o", "n", "m", "e", "t", "h", "o", "d">>, Head(infos).VerificationMethod),
            QueryField(<<"t", "r", "u", "s", "t", "f", "r", "a", "m", "e", "w", "o", "r", "k">>, Head(infos).TrustFramework) >>
         \o VerificationEntries(Tail(infos))

HasLineBreak(s) == \E i \in 1..Len(s) : s[i] \in {"\r", "\n"}

\* C8: ContactData.PutToQueryFields appends, in this order, type, name,
\* organisation, address, postalcode, city, countrycode, email, phone and then
\* the sub-records in list order; the type is in upper case; organisation and
\* address give one entry per physical line (LF, CRLF, lone CR), so that no such
\* value holds a line break and there are as many entries as lines.
C8_ContactDataPutToQueryFields ==
    (pc = "put" /\ arg.op = "ContactData.PutToQueryFields") =>
        LET c == arg.contactData
            organisation == QueryFieldList_Values(fields, QueryFieldNameOrganisation)
            address == QueryFieldList_Values(fields, QueryFieldNameAddress)
        IN  /\ fields = arg.fields
                    \o << QueryField(<<"t", "y", "p", "e">>, ToUpper(c.Type)), QueryField(<<"n", "a", "m", "e">>, c.Name) >>
                    \o Entries(<<"o", "r", "g", "a", "n", "i", "s", "a", "t", "i", "o", "n">>, PhysicalLines(c.Organisation, <<>>))
                    \o Entries(<<"a", "d", "d", "r", "e", "s", "s">>, PhysicalLines(c.Address, <<>>))
                    \o << QueryField(<<"p", "o", "s", "t", "a", "l", "c", "o", "d", "e">>, c.PostalCode),
                          QueryField(<<"c", "i", "t", "y">>, c.City),
                          QueryField(<<"c", "o", "u", "n", "t", "r", "y", "c", "o", "d", "e">>, c.CountryCode) >>
                    \o Entries(<<"e", "m", "a", "i", "l">>, c.EMail)
                    \o << QueryField(<<"p", "h", "o", "n", "e">>, c.Phone) >>
                    \o VerificationEntries(c.VerificationInformation)
            /\ \A i \in 1..Len(organisation) : ~HasLineBreak(organisation[i])
            /\ \A i \in 1..Len(address) : ~HasLineBreak(address[i])
            /\ Len(organisation) = Len(PhysicalLines(c.Organisation, <<>>))
            /\ Len(address) = Len(PhysicalLines(c.Address, <<>>))

\* a lower-case type, CRLF and CR in the organisation, two sub-records
C8_Witness ==
    /\ pc = "put"
    /\ arg.op = "ContactData.PutToQueryFields"
    /\ arg.contactData.Type = <<"p", "e", "r", "s", "o", "n">>
    /\ arg.contactData.Organisation = <<"x", "\r", "\r", "\n", "y">>
    /\ arg.contactData.Address = <<"l", "1", "\n", "l", "2", "\r", "\n">>
    /\ Len(arg.contactData.VerificationInformation) = 2
    /\ QueryFieldList_Values(fields, QueryFieldNameOrganisation) = << <<"x">>, <<>>, <<"y">> >>
    /\ QueryFieldList_Values(fields, QueryFieldNameAddress) = << <<"l", "1">>, <<"l", "2">>, <<>> >>

\* C9: PutDomainToQueryFields adds one or two entries.  For a name that starts
\* with xn-- in any case it adds domain-ace with the name, and domain with the
\* decoded name only when decoding succeeds; for any other name it adds domain
\* with the name, and domain-ace with the encoded name only when encoding
\* succeeds.  It never adds two domain or two domain-ace entries, and the first
\* entry is there whatever the conversion answers.
C9_PutDomainToQueryFields ==
    (pc = "put" /\ arg.op = "PutDomainToQueryFields") =>
        LET domain == arg.domain
            added == SubSeq(fields, Len(arg.fields) + 1, Len(fields))
            isACE == Len(domain) >= 4 /\ ToLower(SubSeq(domain, 1, 4)) = <<"x", "n", "-", "-">>
        IN  /\ SubSeq(fields, 1, Len(arg.fields)) = arg.fields
            /\ Len(added) \in {1, 2}
            /\ CountOf(added, <<"d", "o", "m", "a", "i", "n">>) <= 1
            /\ CountOf(added, <<"d", "o", "m", "a", "i", "n", "-", "a", "c", "e">>) <= 1
            /\ isACE =>
                  /\ added[1] = QueryField(<<"d", "o", "m", "a", "i", "n", "-", "a", "c", "e">>, domain)
                  /\ Len(added) = 2 <=> arg.idna.toUnicode.err = ErrNil
                  /\ Len(added) = 2 => added[2] = QueryField(<<"d", "o", "m", "a", "i", "n">>, arg.idna.toUnicode.val)
            /\ ~isACE =>
                  /\ added[1] = QueryField(<<"d", "o", "m", "a", "i", "n">>, domain)
                  /\ Len(added) = 2 <=> arg.idna.toASCII.err = ErrNil
                  /\ Len(added) = 2 => added[2] = QueryField(<<"d", "o", "m", "a", "i", "n", "-", "a", "c", "e">>, arg.idna.toASCII.val)

\* an upper-case ACE name whose decoding fails while its encoding would succeed
C9_Witness ==
    /\ pc = "put"
    /\ arg.op = "PutDomainToQueryFields"
    /\ arg.domain = <<"X", "N", "-", "-", "M", "N", "C", "H", "E", "N", "-", "3", "Y", "A", ".", "D", "E">>
    /\ arg.idna.toUnicode.err # ErrNil
    /\ arg.idna.toASCII.err = ErrNil
    /\ Len(fields) = Len(arg.fields) + 1

(***************************************************************************)
(* Claims about the queries                                                *)
(***************************************************************************)
\* the query the caller holds was built by a constructor
Constructed == arg.op # "none"

\* it was built by an action-specific constructor
TypedConstructor == arg.op \notin {"none", "NewQuery"}

VersionThenAction(q) ==
    /\ Len(q.fields) >= 2
    /\ q.fields[1].Name = <<"v", "e", "r", "s", "i", "o", "n">>
    /\ q.fields[2].Name = <<"a", "c", "t", "i", "o", "n">>

\* the names of the package, and those of the entries of two queries
FieldNamesOf(q1, q2) ==
    { QueryFieldNameEntity, QueryFieldNameVersion, QueryFieldNameAction, QueryFieldNameUser,
      QueryFieldNamePassword, QueryFieldNameDomainIDN, QueryFieldNameDomainACE,
      QueryFieldNameHolder, QueryFieldNameGeneralRequest, QueryFieldNameAbuseContact,
      QueryFieldNameNameServer, QueryFieldNameHandle, QueryFieldNameDisconnect,
      QueryFieldNameAuthInfoHash, QueryFieldNameAuthInfoExpire, QueryFieldNameAuthInfo,
      QueryFieldNameType, QueryFieldNameName, QueryFieldNameOrganisation,
      QueryFieldNameAddress, QueryFieldNamePostalCode, QueryFieldNameCity,
      QueryFieldNameCountryCode, QueryFieldNameEMail, QueryFieldNameMsgID,
      QueryFieldNameMsgType, QueryFieldNamePhone, QueryFieldNameVerifiedClaim,
      QueryFieldNameVerificationResult, QueryFieldNameVerificationReference,
      QueryFieldNameVerificationTimestamp, QueryFieldNameVerificationEvidence,
      QueryFieldNameVerificationMethod, QueryFieldNameTrustFramework }
    \cup {q1.fields[i].Name : i \in 1..Len(q1.fields)}
    \cup {q2.fields[i].Name : i \in 1..Len(q2.fields)}

\* the parsed query reads as the query q does
SameReading(q) ==
    /\ res.err = ErrNil
    /\ Query_Version(res.val) = Query_Version(q)
    /\ Query_Action(res.val) = Query_Action(q)
    /\ \A name \in FieldNamesOf(q, res.val) : Query_Field(res.val, name) = Query_Field(q, name)

HasLineFeed(s) == \E i \in 1..Len(s) : s[i] = "\n"

\* a value the wire carries as it is: no line feed in it, no white space around it
PlainValue(s) == ~HasLineFeed(s) /\ (s = <<>> \/ (~IsSpace(s[1]) /\ ~IsSpace(s[Len(s)])))

\* C2, as stated: for every query built by an action-specific constructor, with
\* any argument strings, ParseQueryKV(q.EncodeKV()) succeeds and gives a query
\* with the same Version(), Action() and Field(name) for every name.
C2_AsStated == (pc = "reparsed" /\ TypedConstructor) => SameReading(query)

\* C2, amended: that holds when the query holds no entity marker and every
\* value of it is free of line feeds and of white space at its ends.
C2_RoundTrip ==
    (/\ pc = "reparsed"
     /\ TypedConstructor
     /\ \A i \in 1..Len(query.fields) :
           /\ query.fields[i].Name # QueryFieldNameEntity
           /\ PlainValue(query.fields[i].Value))
        => SameReading(query)

\* a provider change with a ':' in its authinfo has been encoded and parsed back
C2_Witness ==
    /\ pc = "reparsed"
    /\ arg.op = "NewChangeProviderQuery"
    /\ arg.authInfo = <<"x", ":", "y">>
    /\ arg.domain = <<"X", "N", "-", "-", "M", "N", "C", "H", "E", "N", "-", "3", "Y", "A", ".", "D", "E">>
    /\ arg.idna.toUnicode.err = ErrNil
    /\ Len(query.fields) = 8
    /\ \A i \in 1..Len(query.fields) : PlainValue(query.fields[i].Value)
    /\ res.err = ErrNil

\* C3, as stated: in every query the package returns, from NewQuery, from an
\* action-specific constructor and from ParseQueryKV or ParseQuery, the first
\* entry is the version and the second the action.
C3_AsStated ==
    /\ pc = "built" => VersionThenAction(query)
    /\ (pc \in {"parsed", "reparsed"} /\ res.err = ErrNil) => VersionThenAction(res.val)

\* C3, amended: that holds of the queries NewQuery and the action-specific
\* constructors return; a query ParseQueryKV or ParseQuery returns holds one
\* version and one action entry, in the places the text gives them.
C3_VersionThenAction ==
    /\ pc = "built" => VersionThenAction(query)
    /\ (pc \in {"parsed", "reparsed"} /\ res.err = ErrNil) =>
          /\ CountOf(res.val.fields, <<"v", "e", "r", "s", "i", "o", "n">>) = 1
          /\ CountOf(res.val.fields, <<"a", "c", "t", "i", "o", "n">>) = 1
          /\ res.val.fields = LineFields(str)

\* a constructed query has been built, encoded and parsed back
C3_Witness ==
    /\ pc = "reparsed"
    /\ arg.op = "NewCreateDomainQuery"
    /\ res.err = ErrNil
    /\ Len(query.fields) > 4
    /\ VersionThenAction(res.val)

\* C4, as stated: every query NewQuery returns, for any supplied list, holds
\* exactly one version and exactly one action value.
C4_AsStated ==
    pc = "built" =>
        /\ Len(Query_Field(query, QueryFieldNameVersion)) = 1
        /\ Len(Query_Field(query, QueryFieldNameAction)) = 1

\* C4, amended: that holds for every supplied list that holds no version and
\* no action entry itself: nil, and every list the action-specific constructors
\* build.
C4_OneVersionOneAction ==
    (/\ pc = "built"
     /\ arg.op = "NewQuery" =>
           /\ CountOf(arg.fieldList.entries, <<"v", "e", "r", "s", "i", "o", "n">>) = 0
           /\ CountOf(arg.fieldList.entries, <<"a", "c", "t", "i", "o", "n">>) = 0)
        => /\ Len(Query_Field(query, QueryFieldNameVersion)) = 1
           /\ Len(Query_Field(query, QueryFieldNameAction)) = 1

\* NewQuery has been given a list of two entries, neither a version nor an action
C4_Witness ==
    /\ pc = "built"
    /\ arg.op = "NewQuery"
    /\ ~arg.fieldList.isNil
    /\ Len(arg.fieldList.entries) = 2
    /\ CountOf(arg.fieldList.entries, <<"v", "e", "r", "s", "i", "o", "n">>) = 0
    /\ CountOf(arg.fieldList.entries, <<"a", "c", "t", "i", "o", "n">>) = 0
    /\ Len(query.fields) = 4

\* the line of an entry: name: value, or the value alone for an entity marker
EntryLine(f) == IF f.Name = <<"e", "n", "t", "i", "t", "y">> THEN f.Value ELSE f.Name \o <<":", " ">> \o f.Value

\* the text is one line per entry, in order, none blank, no newline at the end
OneLinePerEntry ==
    /\ Split(str, <<"\n">>) = [i \in 1..Len(query.fields) |-> EntryLine(query.fields[i])]
    /\ \A i \in 1..Len(Split(str, <<"\n">>)) : Split(str, <<"\n">>)[i] # <<>>
    /\ str[Len(str)] # "\n"

\* C10, as stated: for every query built by NewQuery or by an action-specific
\* constructor, EncodeKV gives one line per entry, in entry order, joined by
\* one newline, with no newline at the end and no blank line.
C10_AsStated == (pc = "encoded" /\ Constructed) => OneLinePerEntry

\* C10, amended: that holds when no name and no value of the query holds a
\* line feed and no entity marker of it is empty.
C10_EncodeKV ==
    (/\ pc = "encoded"
     /\ Constructed
     /\ \A i \in 1..Len(query.fields) :
           /\ ~HasLineFeed(query.fields[i].Name)
           /\ ~HasLineFeed(query.fields[i].Value)
           /\ query.fields[i].Name = QueryFieldNameEntity => query.fields[i].Value # <<>>)
        => OneLinePerEntry

\* a contact with a verification-information sub-record has been encoded
C10_Witness ==
    /\ pc = "encoded"
    /\ arg.op = "NewCreateContactQuery"
    /\ arg.contactData.Name = <<"M", "a", "x">>
    /\ arg.contactData.Organisation = <<"o", "1", "\r", "\n", "o", "2">>
    /\ Len(arg.contactData.VerificationInformation) = 1
    /\ \E i \in 1..Len(Split(str, <<"\n">>)) :
          Split(str, <<"\n">>)[i] = <<"[", "v", "e", "r", "i", "f", "i", "c", "a", "t", "i", "o", "n", "i", "n", "f", "o", "r", "m", "a", "t", "i", "o", "n", "]">>

(***************************************************************************)
(* Claims about encoding a parsed query again                              *)
(***************************************************************************)
\* the query the caller holds was parsed from a text, encoded, and the
\* encoding parsed
Reparsed == pc = "reparsed" /\ ~Constructed

\* the encoding of the parsed query parses to the same entries
SameEntries == res.err = ErrNil /\ res.val.fields = query.fields

\* C12, as stated: for every text s ParseQueryKV accepts, giving the query q,
\* ParseQueryKV(q.EncodeKV()) succeeds and gives the same sequence of entries
\* as q, also when s holds a line whose key is entity or is empty.
C12_AsStated == Reparsed => SameEntries

\* C12, amended: that holds when no line of s has the key entity, in any
\* letter case, that is when q holds no entity entry; it holds when a key is
\* empty.
C12_ReencodingStable ==
    (/\ Reparsed
     /\ \A i \in 1..Len(query.fields) : query.fields[i].Name # QueryFieldNameEntity)
        => SameEntries

\* a text with an empty key and an upper-case key has been parsed, encoded
\* and parsed again
C12_Witness ==
    /\ Reparsed
    /\ Len(query.fields) = 3
    /\ \E i \in 1..3 : query.fields[i] = QueryField(<<>>, <<"v">>)
    /\ \E i \in 1..3 : query.fields[i] = QueryField(<<"v", "e", "r", "s", "i", "o", "n">>, <<"1">>)
    /\ str = <<"v", "e", "r", "s", "i", "o", "n", ":", " ", "1", "\n", "a", "c", "t", "i", "o", "n", ":", " ", "L", "O", "G", "I", "N", "\n", ":", " ", "v">>
    /\ SameEntries

====
